---------------------------- MODULE Spec2Model ----------------------------
(***************************************************************************)
(* Time-stepped call-centre simulation, src/cs.py: simulate_time_stepped.  *)
(*                                                                         *)
(* One behaviour is one call of simulate_time_stepped.  The parameters are *)
(* fixed by Init; the actions follow the body of the function: the range   *)
(* of the for loop (line 39), the arrival draw (42-43), the progress loop  *)
(* (46-51), one iteration of the assignment loop (54-60), the sample       *)
(* (63) and the summary (66-78).                                           *)
(*                                                                         *)
(* Probabilities are counted in units of 1/ProbDen: arrival_prob_per_dt    *)
(* = p stands for p/ProbDen, and random.random() returns r/ProbDen for     *)
(* some r in 0..ProbDen-1, a real of [0,1).  avg_wait and utilization are  *)
(* kept as exact fractions [num, den]; utilization is num/den*100.         *)
(*                                                                         *)
(* RunnerSpec is the program run as a script (lines 165-167): the stream   *)
(* is seeded once and run_simple_experiments calls the function once per   *)
(* scenario (lines 96-98).  stream_pos counts the draws taken from the     *)
(* process-wide stream since it was seeded.  The default sim_time = 2000   *)
(* is scaled down to RunnerSimTime; the reporting after the loop (lines    *)
(* 99-161) draws nothing and is left out.                                  *)
(***************************************************************************)
EXTENDS Integers, Sequences, FiniteSets, TLC

\* ------------------------------------------------------------- bounds --
MaxAgents == 2
MaxTime == 4
MaxDt == 2
MaxService == 2
ProbDen == 2
RunnerSimTime == 2

\* ---------------------------------------------------------- parameters --
\* A configuration is the argument list of simulate_time_stepped.
Config(n, p, lo, hi, T, d) ==
  [num_agents |-> n, arrival_prob_per_dt |-> p,
   service_time_range |-> <<lo, hi>>, sim_time |-> T, dt |-> d]

\* The grid of configurations explored, the invalid ones included:
\* no agent, a probability below 0 or above 1, min > max, dt = 0,
\* sim_time = 0 and sim_time no multiple of dt.
GridConfigs ==
  { Config(n, p, lo, hi, T, d) :
      n \in 0..MaxAgents, p \in (0 - 1)..(ProbDen + 1),
      lo \in (0 - 1)..MaxService, hi \in (0 - 1)..MaxService,
      T \in 0..MaxTime, d \in 0..MaxDt }

\* The concrete scenario of the specification:
\* simulate_time_stepped(1, 1.0, (5, 5), sim_time=10, dt=1).
ScenarioConfig == Config(1, ProbDen, 5, 5, 10, 1)

\* Two agents, a call at every step, service times 2..3: the smallest run
\* in which two agents come free in a step that finds two calls waiting.
DrainConfig == Config(2, ProbDen, 2, 3, 4, 1)

Configs == GridConfigs \cup {ScenarioConfig, DrainConfig}

VARIABLES
  cfg,                 \* the arguments of the call
  queue,               \* arrival times of the waiting calls, head first
  agents,              \* agents[i]: remaining busy time of agent i
  total_busy_time,     \* total_busy_time[i]: time agent i is credited with
  wait_times,          \* recorded waits, in order of assignment
  queue_length_times,  \* samples <<t, queue length>>
  served,              \* number of calls handled
  t,                   \* loop variable of line 39
  i,                   \* loop variable of line 54
  pc,                  \* position in the function
  result,              \* <<>> or <<the returned dictionary>>
  raised,              \* "none" or the exception that left the function
  iters,               \* history: number of loop iterations begun
  arrived,             \* history: number of calls appended to the queue
  assign_log,          \* history: [arrival, step, agent, service] per
                       \*          assignment
  snap,                \* history: agents and queue as the progress phase
                       \*          of the current step left them
  stream_pos,          \* draws taken from the random stream since the seed
  rpc,                 \* "direct": the function is called on its own;
                       \* "loop" / "finished": position of the runner
  scenario_idx,        \* runner: index of the scenario being run
  results,             \* runner: the records collected, in scenario order
  call_start,          \* history: stream_pos when the current call began
  call_log             \* history: [scenario, first, last] per call made

vars == <<cfg, queue, agents, total_busy_time, wait_times,
          queue_length_times, served, t, i, pc, result, raised,
          iters, arrived, assign_log, snap, stream_pos, rpc,
          scenario_idx, results, call_start, call_log>>

runner_vars == <<rpc, scenario_idx, results, call_start, call_log>>

num_agents == cfg.num_agents
arrival_prob_per_dt == cfg.arrival_prob_per_dt
service_time_range == cfg.service_time_range
sim_time == cfg.sim_time
dt == cfg.dt

AgentIds == 0..(num_agents - 1)

\* ------------------------------------------------------ pure helpers --
RECURSIVE SumSeq(_)
SumSeq(s) == IF s = <<>> THEN 0 ELSE Head(s) + SumSeq(Tail(s))

RECURSIVE SumFun(_, _)
SumFun(f, n) == IF n <= 0 THEN 0 ELSE f[n - 1] + SumFun(f, n - 1)

RECURSIVE MaxLen(_)
MaxLen(samples) ==
  IF samples = <<>> THEN 0
  ELSE LET m == MaxLen(Tail(samples))
       IN IF Head(samples)[2] > m THEN Head(samples)[2] ELSE m

\* line 42: random.random() < arrival_prob_per_dt
ArrivesLax(r, p) == r <= p
Arrives(r, p) == r < p

\* line 39: x is an element of range(0, stop, step), step > 0
InRangeLax(x, stop) == x <= stop
InRange(x, stop) == x < stop

\* lines 47-51: the remaining time of one agent after the progress phase
ProgressRemainingNoFloor(rem, d) == IF rem > 0 THEN rem - d ELSE rem
ProgressRemaining(rem, d) ==
  IF rem > 0 THEN (IF rem - d <= 0 THEN 0 ELSE rem - d) ELSE rem

\* lines 47-49: the credited time of one agent after the progress phase
ProgressBusyUnguarded(busy, rem, d) == busy + d
ProgressBusyRemaining(busy, rem, d) == IF rem > 0 THEN busy + rem ELSE busy
ProgressBusy(busy, rem, d) == IF rem > 0 THEN busy + d ELSE busy

\* line 55: agents[i] == 0
IsFreeAlways(rem) == rem >= 0
IsFree(rem) == rem = 0

\* line 55: agents[i] == 0 and queue
CanAssignWaited(rem, q) == IsFree(rem) /\ q # <<>> /\ Head(q) < t
CanAssign(rem, q) == IsFree(rem) /\ q # <<>>

\* line 56: queue.pop(0), as <<the call taken, the queue left>>
PopPeek(q) == <<Head(q), q>>
PopLast(q) == <<q[Len(q)], SubSeq(q, 1, Len(q) - 1)>>
PopFirst(q) == <<Head(q), Tail(q)>>

\* line 57: t - arrival_time
WaitTimeReversed(now, arrival_time) == arrival_time - now
WaitTime(now, arrival_time) == now - arrival_time

\* line 58: the values random.randint(lo, hi) can return (none: ValueError)
RandInt(lo, hi) == lo..hi

\* line 66: statistics.mean(wait_times) if wait_times else 0
Mean(ws) ==
  IF ws = <<>> THEN [num |-> 0, den |-> 1]
  ELSE [num |-> SumSeq(ws), den |-> Len(ws)]

\* line 69: sum(total_busy_time) / (num_agents * sim_time) * 100
Utilization(busy, n, T) == [num |-> SumFun(busy, n), den |-> n * T]

\* ------------------------------------------------------------- Init --
Init ==
  /\ cfg \in Configs
  /\ queue = <<>>
  /\ agents = [a \in AgentIds |-> 0]
  /\ total_busy_time = [a \in AgentIds |-> 0]
  /\ wait_times = <<>>
  /\ queue_length_times = <<>>
  /\ served = 0
  /\ t = 0
  /\ i = 0
  /\ pc = "start"
  /\ result = <<>>
  /\ raised = "none"
  /\ iters = 0
  /\ arrived = 0
  /\ assign_log = <<>>
  /\ snap = [agents |-> agents, queue |-> queue]
  /\ stream_pos = 0
  /\ rpc = "direct"
  /\ scenario_idx = 0
  /\ results = <<>>
  /\ call_start = 0
  /\ call_log = <<>>

\* ---------------------------------------------------------- actions --
\* line 39, first evaluation: range(0, sim_time, dt) raises for dt = 0,
\* is empty for sim_time <= 0, and starts at 0 otherwise.
EnterLoop ==
  /\ pc = "start"
  /\ IF dt = 0
       THEN /\ pc' = "error"
            /\ raised' = "ValueError"
            /\ UNCHANGED <<t, iters>>
       ELSE IF InRange(0, sim_time)
         THEN /\ pc' = "arrival"
              /\ t' = 0
              /\ iters' = iters + 1
              /\ UNCHANGED raised
         ELSE /\ pc' = "summary"
              /\ UNCHANGED <<t, iters, raised>>
  /\ UNCHANGED <<cfg, queue, agents, total_busy_time, wait_times,
                 queue_length_times, served, i, result, arrived,
                 assign_log, snap, stream_pos, runner_vars>>

\* lines 42-43
Arrival ==
  /\ pc = "arrival"
  /\ \E r \in 0..(ProbDen - 1) :
       IF Arrives(r, arrival_prob_per_dt)
         THEN /\ queue' = Append(queue, t)
              /\ arrived' = arrived + 1
         ELSE UNCHANGED <<queue, arrived>>
  /\ stream_pos' = stream_pos + 1
  /\ pc' = "progress"
  /\ UNCHANGED <<cfg, agents, total_busy_time, wait_times,
                 queue_length_times, served, t, i, result, raised, iters,
                 assign_log, snap, runner_vars>>

\* lines 46-51, the whole loop
Progress ==
  /\ pc = "progress"
  /\ agents' = [a \in AgentIds |-> ProgressRemaining(agents[a], dt)]
  /\ total_busy_time' =
       [a \in AgentIds |-> ProgressBusy(total_busy_time[a], agents[a], dt)]
  /\ i' = 0
  /\ pc' = IF num_agents > 0 THEN "assign" ELSE "sample"
  /\ snap' = [agents |-> agents', queue |-> queue]
  /\ UNCHANGED <<cfg, queue, wait_times, queue_length_times, served, t,
                 result, raised, iters, arrived, assign_log, stream_pos,
                 runner_vars>>

\* lines 54-60, the iteration for agent i
AssignAgent ==
  /\ pc = "assign"
  /\ IF CanAssign(agents[i], queue)
       THEN LET popped == PopFirst(queue)
                arrival_time == popped[1]
            IN /\ queue' = popped[2]
               /\ wait_times' = Append(wait_times, WaitTime(t, arrival_time))
               /\ IF RandInt(service_time_range[1], service_time_range[2]) = {}
                    THEN /\ pc' = "error"
                         /\ raised' = "ValueError"
                         /\ UNCHANGED <<agents, served, i, assign_log,
                                        stream_pos>>
                    ELSE /\ \E service_time \in
                               RandInt(service_time_range[1],
                                       service_time_range[2]) :
                              /\ agents' =
                                   [agents EXCEPT ![i] = service_time]
                              /\ assign_log' = Append(assign_log,
                                   [arrival |-> arrival_time, step |-> t,
                                    agent |-> i, service |-> service_time])
                         /\ served' = served + 1
                         /\ stream_pos' = stream_pos + 1
                         /\ i' = i + 1
                         /\ pc' = IF i + 1 < num_agents THEN "assign"
                                                        ELSE "sample"
                         /\ UNCHANGED raised
       ELSE /\ i' = i + 1
            /\ pc' = IF i + 1 < num_agents THEN "assign" ELSE "sample"
            /\ UNCHANGED <<queue, wait_times, agents, served, raised,
                           assign_log, stream_pos>>
  /\ UNCHANGED <<cfg, total_busy_time, queue_length_times, t, result,
                 iters, arrived, snap, runner_vars>>

\* line 63 taken before the assignment phase: the length the arrival phase
\* left is sampled
SampleTransient ==
  /\ pc = "sample"
  /\ queue_length_times' =
       Append(queue_length_times, <<t, Len(snap.queue)>>)
  /\ IF InRange(t + dt, sim_time)
       THEN /\ t' = t + dt
            /\ iters' = iters + 1
            /\ pc' = "arrival"
       ELSE /\ pc' = "summary"
            /\ UNCHANGED <<t, iters>>
  /\ UNCHANGED <<cfg, queue, agents, total_busy_time, wait_times, served,
                 i, result, raised, arrived, assign_log, snap, stream_pos,
                 runner_vars>>

\* line 63, and line 39 again: the next element of the range, if any
Sample ==
  /\ pc = "sample"
  /\ queue_length_times' = Append(queue_length_times, <<t, Len(queue)>>)
  /\ IF InRange(t + dt, sim_time)
       THEN /\ t' = t + dt
            /\ iters' = iters + 1
            /\ pc' = "arrival"
       ELSE /\ pc' = "summary"
            /\ UNCHANGED <<t, iters>>
  /\ UNCHANGED <<cfg, queue, agents, total_busy_time, wait_times, served,
                 i, result, raised, arrived, assign_log, snap, stream_pos,
                 runner_vars>>

\* lines 66-78: the division of line 69 raises when num_agents * sim_time = 0
Summary ==
  /\ pc = "summary"
  /\ IF num_agents * sim_time = 0
       THEN /\ pc' = "error"
            /\ raised' = "ZeroDivisionError"
            /\ UNCHANGED result
       ELSE /\ pc' = "done"
            /\ result' =
                 << [avg_wait |-> Mean(wait_times),
                     max_queue |-> MaxLen(queue_length_times),
                     throughput |-> served,
                     queue_time_series |-> queue_length_times,
                     utilization |->
                       Utilization(total_busy_time, num_agents, sim_time)] >>
            /\ UNCHANGED raised
  /\ UNCHANGED <<cfg, queue, agents, total_busy_time, wait_times,
                 queue_length_times, served, t, i, iters, arrived,
                 assign_log, snap, stream_pos, runner_vars>>

Next ==
  \/ EnterLoop
  \/ Arrival
  \/ Progress
  \/ AssignAgent
  \/ Sample
  \/ Summary

Spec == Init /\ [][Next]_vars

\* The function runs to its return or to its exception: no step is skipped.
FairSpec == Spec /\ WF_vars(Next)

\* ------------------------------------------------------------ runner --
\* lines 87-91: the scenarios, in the order of the dictionary.  The
\* probability 0.5 is ProbDen \div 2 units; sim_time and dt are the
\* defaults of line 14, sim_time scaled down to RunnerSimTime.
Scenarios ==
  << Config(3, ProbDen \div 2, 3, 7, RunnerSimTime, 1),
     Config(4, ProbDen \div 2, 3, 7, RunnerSimTime, 1),
     Config(5, ProbDen \div 2, 3, 7, RunnerSimTime, 1) >>

\* lines 14-39 and 96-97: the stream position a call starts at, given the
\* position the caller left; neither the loop nor the function seeds.
StreamReseeded(pos) == 0
StreamAtCall(pos) == pos

\* lines 165-167 and 93-97: random.seed(42), then the first call
RunnerInit ==
  /\ cfg = Scenarios[1]
  /\ queue = <<>>
  /\ agents = [a \in AgentIds |-> 0]
  /\ total_busy_time = [a \in AgentIds |-> 0]
  /\ wait_times = <<>>
  /\ queue_length_times = <<>>
  /\ served = 0
  /\ t = 0
  /\ i = 0
  /\ pc = "start"
  /\ result = <<>>
  /\ raised = "none"
  /\ iters = 0
  /\ arrived = 0
  /\ assign_log = <<>>
  /\ snap = [agents |-> agents, queue |-> queue]
  /\ stream_pos = 0
  /\ rpc = "loop"
  /\ scenario_idx = 1
  /\ results = <<>>
  /\ call_start = 0
  /\ call_log = <<>>

\* lines 96-98: the record returned is stored under the scenario's name and
\* the loop goes on to the next scenario's call, if any (lines 31-36 of the
\* new call included)
CollectResult ==
  /\ rpc = "loop"
  /\ pc = "done"
  /\ results' = Append(results, result[1])
  /\ call_log' = Append(call_log,
       [scenario |-> scenario_idx, first |-> call_start,
        last |-> stream_pos])
  /\ IF scenario_idx < Len(Scenarios)
       THEN /\ scenario_idx' = scenario_idx + 1
            /\ cfg' = Scenarios[scenario_idx + 1]
            /\ stream_pos' = StreamAtCall(stream_pos)
            /\ call_start' = stream_pos'
            /\ queue' = <<>>
            /\ agents' = [a \in 0..(cfg'.num_agents - 1) |-> 0]
            /\ total_busy_time' = [a \in 0..(cfg'.num_agents - 1) |-> 0]
            /\ wait_times' = <<>>
            /\ queue_length_times' = <<>>
            /\ served' = 0
            /\ t' = 0
            /\ i' = 0
            /\ pc' = "start"
            /\ result' = <<>>
            /\ iters' = 0
            /\ arrived' = 0
            /\ assign_log' = <<>>
            /\ snap' = [agents |-> agents', queue |-> <<>>]
            /\ UNCHANGED <<raised, rpc>>
       ELSE /\ rpc' = "finished"
            /\ UNCHANGED <<cfg, queue, agents, total_busy_time, wait_times,
                           queue_length_times, served, t, i, pc, result,
                           raised, iters, arrived, assign_log, snap,
                           stream_pos, scenario_idx, call_start>>

RunnerNext ==
  \/ EnterLoop
  \/ Arrival
  \/ Progress
  \/ AssignAgent
  \/ Sample
  \/ Summary
  \/ CollectResult

RunnerSpec == RunnerInit /\ [][RunnerNext]_vars

\* ------------------------------------------------- claim vocabulary --
IsScenario == cfg = ScenarioConfig

\* The run contract: at least one agent, a probability of [0,1], min <= max,
\* and sim_time a positive multiple of a positive dt.
ValidConfig ==
  /\ num_agents >= 1
  /\ arrival_prob_per_dt >= 0
  /\ arrival_prob_per_dt <= ProbDen
  /\ service_time_range[1] <= service_time_range[2]
  /\ dt > 0
  /\ sim_time > 0
  /\ sim_time % dt = 0

SumBusy == SumFun(total_busy_time, num_agents)

Returned == pc = "done"

AssignSteps == [k \in DOMAIN assign_log |-> assign_log[k].step]

\* ---------------------------------------------------------------- C1 --
\* C1 as stated: in the scenario run (1 agent, probability 1, service
\* (5,5), sim_time 10, dt 1) the recorded wait times are exactly [0, 0].
C1_WaitsZeroZero == (IsScenario /\ Returned) => wait_times = <<0, 0>>

\* C1 amended: in the scenario run the recorded wait times are exactly
\* [0, 4]: the call served at step 5 is the head of the queue, which
\* arrived at step 1.
C1_WaitsZeroFour == (IsScenario /\ Returned) => wait_times = <<0, 4>>

C1_Witness == IsScenario /\ Returned /\ Len(wait_times) = 2

\* ---------------------------------------------------------------- C2 --
\* C2 as stated: in the scenario run the utilization is exactly 100, the
\* credited busy time at run end being num_agents * sim_time = 10.
C2_UtilizationFull ==
  (IsScenario /\ Returned) =>
    /\ SumBusy = 10
    /\ result[1].utilization.num = result[1].utilization.den

\* C2 amended: in the scenario run the credited busy time at run end is 9
\* of num_agents * sim_time = 10, so the utilization is 9/10*100 = 90.
C2_UtilizationNinety ==
  (IsScenario /\ Returned) =>
    /\ SumBusy = 9
    /\ result[1].utilization = [num |-> 9, den |-> 10]

C2_Witness == IsScenario /\ Returned /\ total_busy_time[0] > 0

\* ---------------------------------------------------------------- C3 --
\* C3: in the scenario run exactly 2 calls begin service (throughput = 2),
\* at steps 0 and 5 and at no other step.
C3_TwoServedAtZeroAndFive ==
  IsScenario =>
    /\ \A k \in DOMAIN assign_log : assign_log[k].step \in {0, 5}
    /\ Returned => /\ result[1].throughput = 2
                   /\ AssignSteps = <<0, 5>>

C3_Witness == IsScenario /\ Returned /\ Len(assign_log) = 2 /\ served = 2

\* ---------------------------------------------------------------- C4 --
\* C4: an invalid configuration is detected before any step of the loop
\* runs, an error is raised, and no result record is returned.
C4_InvalidConfigRejectedAtStart ==
  (~ValidConfig) =>
    /\ iters = 0
    /\ result = <<>>
    /\ pc \in {"start", "error"}

\* ---------------------------------------------------------------- C5 --
\* C5: for every valid configuration and all random outcomes the credited
\* busy time stays within 0 .. num_agents * sim_time, and the utilization
\* returned lies in [0, 100].
C5_UtilizationInRange ==
  ValidConfig =>
    /\ SumBusy >= 0
    /\ SumBusy <= num_agents * sim_time
    /\ Returned => /\ result[1].utilization.num >= 0
                   /\ result[1].utilization.num <= result[1].utilization.den
                   /\ result[1].utilization.num = SumBusy

C5_Witness ==
  /\ ValidConfig
  /\ Returned
  /\ num_agents = 2
  /\ \A a \in AgentIds : total_busy_time[a] > 0

\* ---------------------------------------------------------------- C6 --
\* C6: FIFO fairness.  Of two assigned calls the one that arrived strictly
\* earlier is assigned no later, and no call is assigned while a call that
\* arrived strictly earlier still waits.
C6_FifoFairness ==
  /\ \A a, b \in DOMAIN assign_log :
       assign_log[a].arrival < assign_log[b].arrival
         => assign_log[a].step <= assign_log[b].step
  /\ \A q \in DOMAIN queue : \A b \in DOMAIN assign_log :
       ~ (queue[q] < assign_log[b].arrival)

C6_Witness ==
  /\ assign_log # <<>>
  /\ queue # <<>>
  /\ assign_log[Len(assign_log)].step > assign_log[Len(assign_log)].arrival
  /\ Len(assign_log) >= 2

\* ---------------------------------------------------------------- C7 --
\* C7: as long as the run has not been aborted by an exception, the served
\* counter equals the number of recorded wait times and every recorded
\* wait time is >= 0; the throughput returned is that number.
C7_ServedMatchesWaits ==
  (pc # "error") =>
    /\ served = Len(wait_times)
    /\ \A k \in DOMAIN wait_times : wait_times[k] >= 0
    /\ Returned => result[1].throughput = Len(wait_times)

C7_Witness ==
  /\ Returned
  /\ served >= 2
  /\ \E k \in DOMAIN wait_times : wait_times[k] > 0

\* ---------------------------------------------------------------- C8 --
\* C8: with arrival probability 0 and at least one agent the queue is
\* always empty, every sample is 0, nothing is served, no busy time is
\* credited, and the record returned has avg_wait 0, max_queue 0,
\* throughput 0 and utilization 0.
C8_NoArrivalsNoWork ==
  (arrival_prob_per_dt = 0 /\ num_agents >= 1) =>
    /\ queue = <<>>
    /\ served = 0
    /\ wait_times = <<>>
    /\ \A k \in DOMAIN queue_length_times : queue_length_times[k][2] = 0
    /\ \A a \in AgentIds : total_busy_time[a] = 0 /\ agents[a] = 0
    /\ Returned => /\ result[1].throughput = 0
                   /\ result[1].avg_wait.num = 0
                   /\ result[1].max_queue = 0
                   /\ result[1].utilization.num = 0

C8_Witness ==
  /\ arrival_prob_per_dt = 0
  /\ num_agents >= 1
  /\ Returned
  /\ Len(queue_length_times) >= 3

\* --------------------------------------------------------------- C10 --
\* The loop has begun at most sim_time / dt iterations, the samples are
\* one per finished iteration with times 0, dt, 2dt, ... in order, the
\* last sample holds the queue length left by its step, and the function
\* returns after exactly sim_time / dt iterations.
StepsInOrder ==
  /\ raised = "none"
  /\ iters <= sim_time \div dt
  /\ Len(queue_length_times) =
       (IF pc \in {"arrival", "progress", "assign", "sample"}
          THEN iters - 1 ELSE iters)
  /\ \A k \in DOMAIN queue_length_times :
       queue_length_times[k][1] = (k - 1) * dt
  /\ (pc \in {"arrival", "summary", "done"} /\ queue_length_times # <<>>)
       => queue_length_times[Len(queue_length_times)][2] = Len(queue)
  /\ (pc \in {"arrival", "progress", "assign", "sample"})
       => t = (iters - 1) * dt
  /\ Returned =>
       /\ iters = sim_time \div dt
       /\ t = sim_time - dt
       /\ result[1].queue_time_series = queue_length_times

\* C10: for a valid configuration the run always terminates, after exactly
\* sim_time / dt steps t = 0, dt, ..., sim_time - dt taken in that order,
\* with exactly one (t, queue length) sample per step, in step order.
C10_TerminatesAfterAllSteps ==
  /\ [](ValidConfig => StepsInOrder)
  /\ [](ValidConfig => <>Returned)

C10_Witness ==
  /\ ValidConfig
  /\ Returned
  /\ dt = 2
  /\ iters = 2
  /\ Len(queue_length_times) = 2

\* --------------------------------------------------------------- C11 --
\* C11: the runner calls the function exactly once per scenario, in
\* scenario order, and the stream is never reseeded or reset: the first
\* call starts at the seeded position, each later call starts at the
\* position where the call before it stopped, and a call takes one draw
\* per step plus one per assignment.
C11_OneStreamSequentialCalls ==
  /\ Len(call_log) <= Len(Scenarios)
  /\ Len(results) = Len(call_log)
  /\ \A k \in DOMAIN call_log :
       /\ call_log[k].scenario = k
       /\ call_log[k].last - call_log[k].first =
            Len(results[k].queue_time_series) + results[k].throughput
  /\ call_log # <<>> => call_log[1].first = 0
  /\ \A k \in 1..(Len(call_log) - 1) :
       call_log[k + 1].first = call_log[k].last
  /\ rpc = "loop" =>
       /\ scenario_idx = Len(call_log) + 1
       /\ cfg = Scenarios[scenario_idx]
       /\ call_start =
            (IF call_log = <<>> THEN 0 ELSE call_log[Len(call_log)].last)
       /\ stream_pos >= call_start
  /\ rpc = "finished" => Len(call_log) = Len(Scenarios)

C11_Witness ==
  /\ rpc = "finished"
  /\ Len(call_log) = 3
  /\ call_log[2].first > 0
  /\ call_log[3].first > call_log[2].first
  /\ call_log[3].last > call_log[3].first

\* --------------------------------------------------------------- C12 --
Min2(x, y) == IF x < y THEN x ELSE y
Max2(x, y) == IF x > y THEN x ELSE y

\* C12: in the progress phase of every step of a run within the contract
\* (service times >= 1), a server with remaining_busy_time > 0 gets
\* max(remaining - dt, 0) and its total_busy_time grows by the decrement
\* applied, min(dt, remaining); a server with remaining_busy_time = 0 is
\* left unchanged.
C12_ProgressCreditsDecrement ==
  [][(ValidConfig /\ service_time_range[1] >= 1 /\ pc = "progress") =>
       \A a \in AgentIds :
         IF agents[a] > 0
           THEN /\ agents'[a] = Max2(agents[a] - dt, 0)
                /\ total_busy_time'[a] =
                     total_busy_time[a] + Min2(dt, agents[a])
           ELSE /\ agents'[a] = agents[a]
                /\ total_busy_time'[a] = total_busy_time[a]]_vars

\* --------------------------------------------------------------- C13 --
RemainingNonNegative == \A a \in AgentIds : agents[a] >= 0

\* A server is progressed exactly when its remaining time is > 0, and the
\* assignment loop gives agent i a call exactly when its remaining time is
\* 0 and a call waits.
IdleIffZeroStep ==
  /\ pc = "progress" =>
       \A a \in AgentIds :
         /\ agents[a] = 0 =>
              agents'[a] = 0 /\ total_busy_time'[a] = total_busy_time[a]
         /\ agents[a] > 0 => total_busy_time'[a] > total_busy_time[a]
  /\ pc = "assign" =>
       /\ (agents[i] = 0 /\ queue # <<>>) <=> queue' # queue
       /\ \A a \in AgentIds : a # i => agents'[a] = agents[a]
       /\ agents[i] # 0 => agents'[i] = agents[i]

\* C13 as stated: in every run whose configuration satisfies the contract
\* (min <= max), every remaining_busy_time is >= 0 and a server is treated
\* as idle exactly when its remaining_busy_time is 0.
C13_RemainingNonNegativeInContract ==
  /\ [](ValidConfig => RemainingNonNegative)
  /\ [][ValidConfig => IdleIffZeroStep]_vars

\* C13 amended: the same, for configurations that satisfy the contract and
\* have min >= 0.
C13_RemainingNonNegativeMinNonNegative ==
  /\ []((ValidConfig /\ service_time_range[1] >= 0) => RemainingNonNegative)
  /\ [][(ValidConfig /\ service_time_range[1] >= 0) => IdleIffZeroStep]_vars

C13_Witness ==
  /\ ValidConfig
  /\ service_time_range[1] >= 0
  /\ num_agents = 2
  /\ pc = "sample"
  /\ agents[0] > 0
  /\ agents[1] = 0
  /\ total_busy_time[1] > 0

\* --------------------------------------------------------------- C14 --
\* The assignments made so far in the current step, in order.
StepEntries == SelectSeq(assign_log, LAMBDA e : e.step = t)

\* The agents that the progress phase of the current step left idle.
IdleAfterProgress == {a \in AgentIds : snap.agents[a] = 0}

\* C14: the phases of a step run in the order arrival, progress,
\* assignment.  At the end of the assignment phase of step t, if the queue
\* left by the arrival phase was non-empty and the progress phase left a
\* server idle (one it just freed included), a call was assigned at step
\* t: the head of that queue (a call that arrived at step t included), to
\* a server the progress phase left idle.
C14_SameStepAssignment ==
  (pc = "sample" /\ snap.queue # <<>> /\ IdleAfterProgress # {}) =>
    \E k \in DOMAIN assign_log :
      /\ assign_log[k].step = t
      /\ assign_log[k].arrival = Head(snap.queue)
      /\ assign_log[k].agent \in IdleAfterProgress

\* A call that arrived at step t is given at step t to the server whose
\* earlier call of duration d, begun at step t - d, ended in the progress
\* phase of step t.
C14_Witness ==
  /\ pc = "sample"
  /\ dt = 1
  /\ \E k1, k2 \in DOMAIN assign_log :
       /\ k1 < k2
       /\ assign_log[k1].agent = assign_log[k2].agent
       /\ assign_log[k1].service >= 2
       /\ assign_log[k1].step + assign_log[k1].service = t
       /\ assign_log[k2].step = t
       /\ assign_log[k2].arrival = t

\* --------------------------------------------------------------- C15 --
\* The j-th lowest index among the agents of S is a.
IsJthLowest(a, j, S) == a \in S /\ Cardinality({b \in S : b < a}) = j - 1

\* C15: at the end of the assignment phase of a step that found k idle
\* servers and m waiting calls, exactly min(k, m) calls were assigned, the
\* j-th call from the head of the queue to the j-th lowest-index idle
\* server, each server receiving at most one call, the calls left in the
\* queue being the rest in order, and the servers that were not idle
\* being left unchanged.
C15_AssignsMinOfIdleAndWaiting ==
  pc = "sample" =>
    LET n == Min2(Cardinality(IdleAfterProgress), Len(snap.queue))
    IN /\ Len(StepEntries) = n
       /\ \A j \in 1..n :
            /\ StepEntries[j].arrival = snap.queue[j]
            /\ IsJthLowest(StepEntries[j].agent, j, IdleAfterProgress)
            /\ agents[StepEntries[j].agent] = StepEntries[j].service
       /\ queue = SubSeq(snap.queue, n + 1, Len(snap.queue))
       /\ \A a \in AgentIds :
            (\A j \in 1..n : StepEntries[j].agent # a)
              => agents[a] = snap.agents[a]

C15_Witness ==
  /\ pc = "sample"
  /\ Cardinality(IdleAfterProgress) = 2
  /\ Len(snap.queue) = 2
  /\ Len(StepEntries) = 2
  /\ StepEntries[1].arrival < StepEntries[2].arrival
  /\ StepEntries[1].agent < StepEntries[2].agent

\* --------------------------------------------------------------- C16 --
\* The calls that arrived at or before time x: those assigned since and
\* those still waiting.
ArrivedBy(x) ==
  Cardinality({k \in DOMAIN assign_log : assign_log[k].arrival <= x})
    + Cardinality({q \in DOMAIN queue : queue[q] <= x})

\* The calls assigned at or before time x.
AssignedBy(x) ==
  Cardinality({k \in DOMAIN assign_log : assign_log[k].step <= x})

PostAssignmentLength(x) == ArrivedBy(x) - AssignedBy(x)

\* C16: the sample of step t is the queue length after the arrival and
\* the assignment phase of step t, that is the calls arrived by t less the
\* calls assigned by t, never the length the arrival phase left when an
\* assignment followed; max_queue is the maximum of these samples.
C16_SampleAfterAssignment ==
  (pc # "error") =>
    /\ \A k \in DOMAIN queue_length_times :
         queue_length_times[k][2] =
           PostAssignmentLength(queue_length_times[k][1])
    /\ (pc \in {"arrival", "summary", "done"} /\ queue_length_times # <<>>)
         => LET last == queue_length_times[Len(queue_length_times)]
            IN last[2] = Len(snap.queue) - (AssignedBy(last[1])
                                             - AssignedBy(last[1] - dt))
    /\ Returned =>
         /\ \A k \in DOMAIN queue_length_times :
              result[1].max_queue >= PostAssignmentLength((k - 1) * dt)
         /\ \/ \E k \in DOMAIN queue_length_times :
                 result[1].max_queue = PostAssignmentLength((k - 1) * dt)
            \/ result[1].max_queue = 0

\* Calls waited between the arrival and the assignment phase of their
\* step, and no sample shows them.
C16_Witness ==
  /\ Returned
  /\ arrived >= 2
  /\ served = arrived
  /\ result[1].max_queue = 0

\* --------------------------------------------------------------- C17 --
\* The arrival times of all calls accounted for, assigned or waiting.
AccountedCalls ==
  {assign_log[k].arrival : k \in DOMAIN assign_log}
    \cup {queue[q] : q \in DOMAIN queue}

\* C17: call conservation.  As long as the run has not been aborted by an
\* exception, the calls arrived are the calls served plus the calls
\* waiting, each call exactly once; at run end arrivals = throughput +
\* final queue length.
C17_CallConservation ==
  (pc # "error") =>
    /\ arrived = served + Len(queue)
    /\ Len(assign_log) = served
    /\ Cardinality(AccountedCalls) = arrived
    /\ Returned => arrived = result[1].throughput + Len(queue)

C17_Witness ==
  /\ Returned
  /\ arrived >= 3
  /\ served >= 1
  /\ Len(queue) >= 1

\* --------------------------------------------------------------- C18 --
\* C18: work conservation.  When every service duration drawn is >= 1, a
\* non-empty queue at the sampling point means every server has
\* remaining_busy_time > 0, and a positive sample is never recorded while
\* a server is idle.
C18_WorkConservation ==
  (service_time_range[1] >= 1) =>
    /\ (pc = "sample" /\ queue # <<>>)
         => \A a \in AgentIds : agents[a] > 0
    /\ (pc \in {"arrival", "summary", "done"} /\ queue_length_times # <<>>
          /\ queue_length_times[Len(queue_length_times)][2] > 0)
         => \A a \in AgentIds : agents[a] > 0

C18_Witness ==
  /\ service_time_range[1] >= 1
  /\ pc = "sample"
  /\ queue # <<>>
  /\ num_agents = 2
  /\ \A a \in AgentIds : agents[a] > 0

\* --------------------------------------------------------------- C19 --
\* The number of progress phases run so far: one per iteration begun, the
\* one of the current iteration not yet counted before it has run.
ProgressDone ==
  IF pc \in {"arrival", "progress"} THEN iters - 1 ELSE iters

\* The steps at which agent a was given a call.
AssignStepsOf(a) ==
  {assign_log[k].step :
     k \in {j \in DOMAIN assign_log : assign_log[j].agent = a}}

\* The progress phases run at steps after step u.
ProgressAfter(u) == Max2(ProgressDone - (u \div dt) - 1, 0)

\* C19: busy time is credited one step late.  A server is credited nothing
\* before the first progress phase after its first assignment, so nothing
\* at step 0; within the contract its total_busy_time at run end is at
\* most sim_time - dt; and the utilization returned counts the credited
\* time only, never the service still outstanding.
C19_BusyCreditedOneStepLate ==
  /\ \A a \in AgentIds :
       /\ AssignStepsOf(a) = {} => total_busy_time[a] = 0
       /\ \A u \in AssignStepsOf(a) :
            (\A v \in AssignStepsOf(a) : u <= v)
              => total_busy_time[a] <= dt * ProgressAfter(u)
  /\ iters <= 1 => \A a \in AgentIds : total_busy_time[a] = 0
  /\ (ValidConfig /\ Returned) =>
       /\ \A a \in AgentIds : total_busy_time[a] <= sim_time - dt
       /\ result[1].utilization.num = SumBusy
       /\ SumBusy <= num_agents * (sim_time - dt)

C19_Witness ==
  /\ ValidConfig
  /\ Returned
  /\ \E a \in AgentIds :
       /\ agents[a] > 0
       /\ total_busy_time[a] = sim_time - dt
       /\ total_busy_time[a] > 0

\* --------------------------------------------------------------- C20 --
\* The progress phases run since the assignment e (dt = 1).
ElapsedSince(e) == ProgressDone - 1 - e.step

\* What the calls given to agent a have added to its credited time so far:
\* each call its duration, or the phases run since if it is still served.
CreditOf(a) ==
  SumSeq([k \in DOMAIN assign_log |->
            IF assign_log[k].agent = a
              THEN Min2(Max2(assign_log[k].service, 0),
                        ElapsedSince(assign_log[k]))
              ELSE 0])

\* C20: service occupancy, dt = 1.  A server given a call of duration
\* d >= 1 at step t is given no other call before step t + d, its
\* remaining time is d less the steps gone by, reaching 0 (eligible again)
\* exactly at step t + d, and the call adds exactly d to total_busy_time
\* once step t + d has been run (t + d <= sim_time - 1), the steps gone by
\* before that.
C20_ServiceOccupancy ==
  (dt = 1) =>
    /\ \A k1, k2 \in DOMAIN assign_log :
         (k1 < k2 /\ assign_log[k1].agent = assign_log[k2].agent
            /\ assign_log[k1].service >= 1)
           => assign_log[k2].step >=
                assign_log[k1].step + assign_log[k1].service
    /\ \A k \in DOMAIN assign_log :
         ((\A j \in DOMAIN assign_log :
              assign_log[j].agent = assign_log[k].agent => j <= k)
            /\ assign_log[k].service >= 1)
           => agents[assign_log[k].agent] =
                Max2(assign_log[k].service - ElapsedSince(assign_log[k]), 0)
    /\ \A a \in AgentIds : total_busy_time[a] = CreditOf(a)
    /\ Returned =>
         \A k \in DOMAIN assign_log :
           (assign_log[k].service >= 1
              /\ assign_log[k].step + assign_log[k].service <= sim_time - 1)
             => ElapsedSince(assign_log[k]) >= assign_log[k].service

C20_Witness ==
  /\ dt = 1
  /\ Returned
  /\ \E k1, k2 \in DOMAIN assign_log :
       /\ k1 < k2
       /\ assign_log[k1].agent = assign_log[k2].agent
       /\ assign_log[k1].service >= 2
       /\ assign_log[k2].step = assign_log[k1].step + assign_log[k1].service
       /\ total_busy_time[assign_log[k1].agent] >= assign_log[k1].service

=============================================================================
